---- MODULE Spec2Model ----
(***************************************************************************)
(* Model of the inode layer of src/src/filesys/inode.c: the on-disk inode, *)
(* the list of open inodes with its locks, and the sector-granularity      *)
(* read/write path.                                                        *)
(*                                                                         *)
(* Threads run the lifecycle functions (inode_open, inode_reopen,          *)
(* inode_close, inode_remove) one shared-memory access at a time; the      *)
(* program counter of a thread names the source line it executes next.     *)
(* inode_create, inode_read_at and inode_write_at are single actions.      *)
(*                                                                         *)
(* A sector is DISK_SECTOR_SIZE cells.  A cell stands for one byte of file *)
(* data, and in a sector that holds an inode_disk for one of its 32-bit    *)
(* words (start, length, magic, unused[]).                                 *)
(*                                                                         *)
(* Memory returned by malloc and memory passed to free has indeterminate   *)
(* content: the fields of such an inode are listed in its "uninit" set and *)
(* a read of such a field is a nondeterministic choice.                    *)
(***************************************************************************)
EXTENDS Integers, Sequences, FiniteSets, TLC

\* ---------------------------------------------------------------- bounds
NThreads == 2
NInodes == 2
NSectors == 5
NLocations == 2
DISK_SECTOR_SIZE == 3
MaxLength == 7
MaxCalls == 4
MaxIOCalls == 2
MaxCreates == 1
MaxWrites == 1
MaxReads == 1

\* ------------------------------------------------------------- constants
INODE_MAGIC == 1229868868
NULL == 0
NO_SECTOR == -1

Threads == 1..NThreads
Inodes == 1..NInodes
Sectors == 0..(NSectors - 1)
\* Sectors the callers reserve for inodes before they call inode_create
\* (the free map marks them used from the start).
Locations == 0..(NLocations - 1)

Min(a, b) == IF a < b THEN a ELSE b
Max(a, b) == IF a < b THEN b ELSE a

\* ------------------------------------------------------------- variables
VARIABLES
  disk,             \* filesys_disk: [Sectors -> sequence of DISK_SECTOR_SIZE cells]
  free_map,         \* the allocator: set of free sectors
  files,            \* locations that hold the inode of a created, not yet deleted file
  open_inodes,      \* the list of open inodes, front first
  inode_list_lock,  \* holder of inode_list_lock, NULL if free
  inodes,           \* the heap: [Inodes -> struct inode]
  pc,               \* [Threads -> position]
  lv,               \* [Threads -> local variables of the running function]
  ret,              \* [Threads -> last value returned by inode_open / inode_reopen]
  calls,            \* number of lifecycle calls the threads may still start
  held,             \* [Threads -> [Inodes -> references returned and not yet closed]]
  panic,            \* the kernel has panicked (failed ASSERT or wild access)
  creates,          \* number of inode_create calls made
  nio,              \* [rd, wr]: number of inode_read_at / inode_write_at calls made
  wr,               \* the last inode_write_at call, if no lifecycle call followed it
  io                \* the last call, if it was inode_create / inode_read_at / inode_write_at

vars == <<disk, free_map, files, open_inodes, inode_list_lock, inodes, pc, lv,
          ret, calls, held, panic, creates, nio, wr, io>>

diskv == <<disk, free_map, files>>
iov == <<creates, nio, wr, io>>

\* ---------------------------------------------------------- struct inode
InodeFields == {"sector", "open_cnt", "removed", "data", "inode_lock", "dir_lock"}

NoData == [start |-> 0, length |-> 0, magic |-> 0]

\* A block that is not allocated; also the content model of a block that was
\* just returned by malloc: every field is indeterminate.
Garbage(isAlloc) ==
  [alloc |-> isAlloc, uninit |-> InodeFields, sector |-> 0, open_cnt |-> 0,
   removed |-> FALSE, data |-> NoData, inode_lock |-> NULL, dir_lock |-> NULL]

LvInit == [sector |-> 0, inode |-> NULL, e |-> 0, cnt |-> 0, cntu |-> FALSE,
           from |-> "none"]

HeldTotal(t) ==
  LET RECURSIVE Sum(_)
      Sum(i) == IF i = 0 THEN 0 ELSE held[t][i] + Sum(i - 1)
  IN Sum(NInodes)

InList(h) == \E i \in 1..Len(open_inodes) : open_inodes[i] = h

\* list_remove
ListRemove(l, h) == SelectSeq(l, LAMBDA x : x # h)

\* -------------------------------------------------------------- on disk
\* A rounding that is one sector too many on a sector boundary.
bytes_to_sectors_RoundPast(size) == (size \div DISK_SECTOR_SIZE) + 1

\* DIV_ROUND_UP (size, DISK_SECTOR_SIZE)
bytes_to_sectors(size) == (size + DISK_SECTOR_SIZE - 1) \div DISK_SECTOR_SIZE

\* The sector image of a struct inode_disk: start, length, magic, unused[].
EncodeInode(d) ==
  [i \in 1..DISK_SECTOR_SIZE |->
     IF i = 1 THEN d.start ELSE IF i = 2 THEN d.length
     ELSE IF i = 3 THEN d.magic ELSE 0]

\* The struct inode_disk a sector image is read as.
DecodeInode(s) == [start |-> s[1], length |-> s[2], magic |-> s[3]]

zeros == [i \in 1..DISK_SECTOR_SIZE |-> 0]

\* Content of a sector nothing has written yet.
Stale(s) == [i \in 1..DISK_SECTOR_SIZE |-> 100 + 10 * s + i]

\* ------------------------------------------------------------ allocator
\* free_map_allocate (cnt, &start): the sectors a successful call may hand
\* out as the first of cnt consecutive free sectors.
free_map_allocate(fm, cnt) ==
  {s \in Sectors : \A i \in 0..(cnt - 1) : (s + i) \in fm}

\* free_map_release (sector, cnt)
free_map_release(fm, sector, cnt) ==
  fm \cup {s \in Sectors : sector <= s /\ s < sector + cnt}

\* ---------------------------------------------------------------- locks
\* lock_acquire / lock_release on &inode->inode_lock.  On an initialized
\* lock the only outcome is "valid".  A lock whose memory is indeterminate
\* may happen to look like a free lock ("valid"), let everybody through
\* ("wild"), or bring the kernel down ("panic").
Outcomes == {"valid", "wild", "panic"}

CanAcquire(h, o) ==
  IF "inode_lock" \in inodes[h].uninit
  THEN TRUE
  ELSE o = "valid" /\ inodes[h].inode_lock = NULL

Acquired(h, t, o) ==
  IF o = "valid"
  THEN [inodes[h] EXCEPT !.inode_lock = t, !.uninit = @ \ {"inode_lock"}]
  ELSE inodes[h]

\* lock_release asserts that the caller holds the lock.
CanRelease(h, t, o) ==
  IF "inode_lock" \in inodes[h].uninit
  THEN o \in {"wild", "panic"}
  ELSE IF inodes[h].inode_lock = t THEN o = "valid" ELSE o = "panic"

Released(ino, o) ==
  IF o = "valid" THEN [ino EXCEPT !.inode_lock = NULL] ELSE ino

\* Values a read of a possibly indeterminate field can yield: what an inode
\* that lived in the block before left there, or a wild value (NO_SECTOR, a
\* sector that is not on the disk).
SectorValue(h) ==
  IF "sector" \in inodes[h].uninit
  THEN Locations \cup {NO_SECTOR}
  ELSE {inodes[h].sector}

RemovedValue(h) ==
  IF "removed" \in inodes[h].uninit THEN BOOLEAN ELSE {inodes[h].removed}

DataValue(h) ==
  IF "data" \in inodes[h].uninit
  THEN {DecodeInode(disk[l]) : l \in Locations}
         \cup {[start |-> NO_SECTOR, length |-> 0, magic |-> 0]}
  ELSE {inodes[h].data}

\* open_cnt after "open_cnt = v" where v was computed from a read that was
\* (cntu) or was not indeterminate.
WithCnt(ino, v, cntu) ==
  IF cntu
  THEN [ino EXCEPT !.open_cnt = 0, !.uninit = @ \cup {"open_cnt"}]
  ELSE [ino EXCEPT !.open_cnt = v, !.uninit = @ \ {"open_cnt"}]

IoNone ==
  [op |-> "none", inode |-> NULL, sector |-> 0, size |-> 0, offset |-> 0,
   length |-> 0, start |-> 0, ok |-> FALSE, ret |-> 0, buf |-> <<>>,
   reads |-> <<>>, writes |-> <<>>, zeroed |-> 0, nomem |-> FALSE]

WrNone ==
  [valid |-> FALSE, inode |-> NULL, offset |-> 0, buf |-> <<>>, ret |-> 0,
   nomem |-> FALSE]

\* The kernel panics: the machine halts.  What is on the disk stays, the
\* content of memory is gone.
Crash ==
  /\ panic' = TRUE
  /\ open_inodes' = <<>>
  /\ inode_list_lock' = NULL
  /\ inodes' = [h \in Inodes |-> Garbage(FALSE)]
  /\ pc' = [t \in Threads |-> "halted"]
  /\ lv' = [t \in Threads |-> LvInit]
  /\ ret' = [t \in Threads |-> NULL]
  /\ held' = [t \in Threads |-> [h \in Inodes |-> 0]]
  /\ wr' = WrNone
  /\ io' = IoNone
  /\ UNCHANGED <<disk, free_map, files, calls, creates, nio>>

\* The function of thread t returns to its caller.
Return(t) ==
  /\ pc' = [pc EXCEPT ![t] = "idle"]
  /\ lv' = [lv EXCEPT ![t] = [LvInit EXCEPT !.sector = lv[t].sector]]

\* ----------------------------------------------------------- inode_open
\* A thread calls inode_open (sector) on the inode sector of a file.
inode_open(t) ==
  \E sector \in files :
    /\ ~panic /\ pc[t] = "idle" /\ calls > 0
    /\ pc' = [pc EXCEPT ![t] = "open_141"]
    /\ lv' = [lv EXCEPT ![t] = [LvInit EXCEPT !.sector = sector]]
    /\ calls' = calls - 1
    /\ io' = IoNone /\ wr' = WrNone
    /\ UNCHANGED <<diskv, open_inodes, inode_list_lock, inodes, ret, held,
                   panic, creates, nio>>

\* line 141: lock_acquire (&inode_list_lock); line 143: e = list_begin
inode_open_141(t) ==
  /\ ~panic /\ pc[t] = "open_141"
  /\ inode_list_lock = NULL
  /\ inode_list_lock' = t
  /\ lv' = [lv EXCEPT ![t].e = 1]
  /\ pc' = [pc EXCEPT ![t] = "open_143"]
  /\ UNCHANGED <<diskv, open_inodes, inodes, ret, calls, held, panic, iov>>

\* lines 143-147: end of list, or lock_acquire (&inode->inode_lock)
inode_open_143(t) ==
  /\ ~panic /\ pc[t] = "open_143"
  /\ IF lv[t].e > Len(open_inodes)
     THEN /\ pc' = [pc EXCEPT ![t] = "open_162"]
          /\ UNCHANGED <<diskv, open_inodes, inode_list_lock, inodes, lv, ret,
                         calls, held, panic, iov>>
     ELSE LET h == open_inodes[lv[t].e] IN
          \E o \in Outcomes :
            /\ CanAcquire(h, o)
            /\ IF o = "panic" THEN Crash
               ELSE /\ inodes' = [inodes EXCEPT ![h] = Acquired(h, t, o)]
                    /\ lv' = [lv EXCEPT ![t].inode = h]
                    /\ pc' = [pc EXCEPT ![t] = "open_148"]
                    /\ UNCHANGED <<diskv, open_inodes, inode_list_lock, ret,
                                   calls, held, panic, iov>>

\* lines 148-150: tmp = inode->sector == sector; lock_release; if (tmp)
inode_open_148(t) ==
  LET h == lv[t].inode IN
  /\ ~panic /\ pc[t] = "open_148"
  /\ \E o \in Outcomes, s \in SectorValue(h) :
       /\ CanRelease(h, t, o)
       /\ IF o = "panic" THEN Crash
          ELSE /\ inodes' = [inodes EXCEPT ![h] = Released(@, o)]
               /\ IF s = lv[t].sector
                  THEN /\ pc' = [pc EXCEPT ![t] = "reopen_199"]
                       /\ lv' = [lv EXCEPT ![t].from = "open"]
                  ELSE /\ pc' = [pc EXCEPT ![t] = "open_143"]
                       /\ lv' = [lv EXCEPT ![t].e = @ + 1, ![t].inode = NULL]
               /\ UNCHANGED <<diskv, open_inodes, inode_list_lock, ret, calls,
                              held, panic, iov>>

\* lines 153-157: lock_release (&inode_list_lock); return inode
inode_open_153(t) ==
  LET h == lv[t].inode IN
  /\ ~panic /\ pc[t] = "open_153"
  /\ inode_list_lock' = NULL
  /\ ret' = [ret EXCEPT ![t] = h]
  /\ held' = [held EXCEPT ![t][h] = @ + 1]
  /\ Return(t)
  /\ UNCHANGED <<diskv, open_inodes, inodes, calls, panic, iov>>

\* inode_open_162 without the lock_release of line 166 on the failure path.
inode_open_162_KeepLock(t) ==
  /\ ~panic /\ pc[t] = "open_162"
  /\ \E h \in {NULL} \cup {x \in Inodes : ~inodes[x].alloc} :
       IF h = NULL
       THEN /\ ret' = [ret EXCEPT ![t] = NULL]
            /\ Return(t)
            /\ UNCHANGED <<open_inodes, inodes, inode_list_lock>>
       ELSE /\ inode_list_lock' = NULL
            /\ inodes' = [inodes EXCEPT ![h] = Garbage(TRUE)]
            /\ open_inodes' = <<h>> \o open_inodes
            /\ lv' = [lv EXCEPT ![t].inode = h]
            /\ pc' = [pc EXCEPT ![t] = "open_176"]
            /\ UNCHANGED ret
  /\ UNCHANGED <<diskv, calls, held, panic, iov>>

\* lines 162-174: malloc; on failure unlock and return NULL; otherwise
\* list_push_front and lock_release (&inode_list_lock)
inode_open_162(t) ==
  /\ ~panic /\ pc[t] = "open_162"
  /\ \E h \in {NULL} \cup {x \in Inodes : ~inodes[x].alloc} :
       /\ inode_list_lock' = NULL
       /\ IF h = NULL
          THEN /\ ret' = [ret EXCEPT ![t] = NULL]
               /\ Return(t)
               /\ UNCHANGED <<open_inodes, inodes>>
          ELSE /\ inodes' = [inodes EXCEPT ![h] = Garbage(TRUE)]
               /\ open_inodes' = <<h>> \o open_inodes
               /\ lv' = [lv EXCEPT ![t].inode = h]
               /\ pc' = [pc EXCEPT ![t] = "open_176"]
               /\ UNCHANGED ret
  /\ UNCHANGED <<diskv, calls, held, panic, iov>>

\* line 176: inode->sector = sector
inode_open_176(t) ==
  LET h == lv[t].inode IN
  /\ ~panic /\ pc[t] = "open_176"
  /\ inodes' = [inodes EXCEPT ![h].sector = lv[t].sector,
                              ![h].uninit = @ \ {"sector"}]
  /\ pc' = [pc EXCEPT ![t] = "open_177"]
  /\ UNCHANGED <<diskv, open_inodes, inode_list_lock, lv, ret, calls, held,
                 panic, iov>>

\* line 177: inode->open_cnt = 1
inode_open_177(t) ==
  LET h == lv[t].inode IN
  /\ ~panic /\ pc[t] = "open_177"
  /\ inodes' = [inodes EXCEPT ![h] = WithCnt(@, 1, FALSE)]
  /\ pc' = [pc EXCEPT ![t] = "open_178"]
  /\ UNCHANGED <<diskv, open_inodes, inode_list_lock, lv, ret, calls, held,
                 panic, iov>>

\* line 178: inode->removed = false
inode_open_178(t) ==
  LET h == lv[t].inode IN
  /\ ~panic /\ pc[t] = "open_178"
  /\ inodes' = [inodes EXCEPT ![h].removed = FALSE,
                              ![h].uninit = @ \ {"removed"}]
  /\ pc' = [pc EXCEPT ![t] = "open_180"]
  /\ UNCHANGED <<diskv, open_inodes, inode_list_lock, lv, ret, calls, held,
                 panic, iov>>

\* line 180: disk_read (filesys_disk, inode->sector, &inode->data)
inode_open_180(t) ==
  LET h == lv[t].inode IN
  /\ ~panic /\ pc[t] = "open_180"
  /\ \E s \in SectorValue(h) :
       IF s = NO_SECTOR THEN Crash
       ELSE /\ inodes' = [inodes EXCEPT ![h].data = DecodeInode(disk[s]),
                                        ![h].uninit = @ \ {"data"}]
            /\ pc' = [pc EXCEPT ![t] = "open_181"]
            /\ UNCHANGED <<diskv, open_inodes, inode_list_lock, lv, ret, calls,
                           held, panic, iov>>

\* lines 181-186: lock_init (&inode->inode_lock); return inode
inode_open_181(t) ==
  LET h == lv[t].inode IN
  /\ ~panic /\ pc[t] = "open_181"
  /\ inodes' = [inodes EXCEPT ![h].inode_lock = NULL,
                              ![h].uninit = @ \ {"inode_lock"}]
  /\ ret' = [ret EXCEPT ![t] = h]
  /\ held' = [held EXCEPT ![t][h] = @ + 1]
  /\ Return(t)
  /\ UNCHANGED <<diskv, open_inodes, inode_list_lock, calls, panic, iov>>

\* --------------------------------------------------------- inode_reopen
\* A thread calls inode_reopen on an inode it has open.
inode_reopen(t) ==
  \E h \in Inodes :
    /\ ~panic /\ pc[t] = "idle" /\ calls > 0
    /\ held[t][h] > 0
    /\ pc' = [pc EXCEPT ![t] = "reopen_199"]
    /\ lv' = [lv EXCEPT ![t] = [LvInit EXCEPT !.sector = lv[t].sector,
                                              !.inode = h, !.from = "call"]]
    /\ calls' = calls - 1
    /\ io' = IoNone /\ wr' = WrNone
    /\ UNCHANGED <<diskv, open_inodes, inode_list_lock, inodes, ret, held,
                   panic, creates, nio>>

\* line 199: lock_acquire (&inode->inode_lock); line 200 reads open_cnt
inode_reopen_199(t) ==
  LET h == lv[t].inode IN
  /\ ~panic /\ pc[t] = "reopen_199"
  /\ \E o \in Outcomes :
       /\ CanAcquire(h, o)
       /\ IF o = "panic" THEN Crash
          ELSE /\ inodes' = [inodes EXCEPT ![h] = Acquired(h, t, o)]
               /\ lv' = [lv EXCEPT
                    ![t].cntu = "open_cnt" \in inodes[h].uninit,
                    ![t].cnt = inodes[h].open_cnt]
               /\ pc' = [pc EXCEPT ![t] = "reopen_200"]
               /\ UNCHANGED <<diskv, open_inodes, inode_list_lock, ret, calls,
                              held, panic, iov>>

\* lines 200-207: open_cnt++ is stored; lock_release; return inode
inode_reopen_200(t) ==
  LET h == lv[t].inode
      inc == WithCnt(inodes[h], lv[t].cnt + 1, lv[t].cntu)
  IN
  /\ ~panic /\ pc[t] = "reopen_200"
  /\ \E o \in Outcomes :
       /\ CanRelease(h, t, o)
       /\ IF o = "panic" THEN Crash
          ELSE /\ inodes' = [inodes EXCEPT ![h] = Released(inc, o)]
               /\ IF lv[t].from = "open"
                  THEN /\ pc' = [pc EXCEPT ![t] = "open_153"]
                       /\ UNCHANGED <<lv, ret, held>>
                  ELSE /\ ret' = [ret EXCEPT ![t] = h]
                       /\ held' = [held EXCEPT ![t][h] = @ + 1]
                       /\ Return(t)
               /\ UNCHANGED <<diskv, open_inodes, inode_list_lock, calls,
                              panic, iov>>

\* ---------------------------------------------------------- inode_close
\* A thread calls inode_close on an inode it has open and gives up one of
\* its references.
inode_close(t) ==
  \E h \in Inodes :
    /\ ~panic /\ pc[t] = "idle" /\ calls > 0
    /\ held[t][h] > 0
    /\ held' = [held EXCEPT ![t][h] = @ - 1]
    /\ pc' = [pc EXCEPT ![t] = "close_246"]
    /\ lv' = [lv EXCEPT ![t] = [LvInit EXCEPT !.sector = lv[t].sector,
                                              !.inode = h]]
    /\ calls' = calls - 1
    /\ io' = IoNone /\ wr' = WrNone
    /\ UNCHANGED <<diskv, open_inodes, inode_list_lock, inodes, ret, panic, creates, nio>>

\* line 246: lock_acquire (&inode->inode_lock); line 248 reads open_cnt
inode_close_246(t) ==
  LET h == lv[t].inode IN
  /\ ~panic /\ pc[t] = "close_246"
  /\ \E o \in Outcomes :
       /\ CanAcquire(h, o)
       /\ IF o = "panic" THEN Crash
          ELSE /\ inodes' = [inodes EXCEPT ![h] = Acquired(h, t, o)]
               /\ lv' = [lv EXCEPT
                    ![t].cntu = "open_cnt" \in inodes[h].uninit,
                    ![t].cnt = inodes[h].open_cnt]
               /\ pc' = [pc EXCEPT ![t] = "close_248"]
               /\ UNCHANGED <<diskv, open_inodes, inode_list_lock, ret, calls,
                              held, panic, iov>>

\* line 248: --open_cnt is stored and tested; lines 272-277 when not zero
inode_close_248(t) ==
  LET h == lv[t].inode
      dec == WithCnt(inodes[h], lv[t].cnt - 1, lv[t].cntu)
  IN
  /\ ~panic /\ pc[t] = "close_248"
  /\ \E zero \in (IF lv[t].cntu THEN BOOLEAN ELSE {lv[t].cnt - 1 = 0}) :
       IF zero
       THEN /\ inodes' = [inodes EXCEPT ![h] = dec]
            /\ pc' = [pc EXCEPT ![t] = "close_251"]
            /\ UNCHANGED <<diskv, open_inodes, inode_list_lock, lv, ret, calls,
                           held, panic, iov>>
       ELSE \E o \in Outcomes :
              /\ CanRelease(h, t, o)
              /\ IF o = "panic" THEN Crash
                 ELSE /\ inodes' = [inodes EXCEPT ![h] = Released(dec, o)]
                      /\ Return(t)
                      /\ UNCHANGED <<diskv, open_inodes, inode_list_lock, ret,
                                     calls, held, panic, iov>>

\* line 251: lock_acquire (&inode_list_lock)
inode_close_251(t) ==
  /\ ~panic /\ pc[t] = "close_251"
  /\ inode_list_lock = NULL
  /\ inode_list_lock' = t
  /\ pc' = [pc EXCEPT ![t] = "close_252"]
  /\ UNCHANGED <<diskv, open_inodes, inodes, lv, ret, calls, held, panic, iov>>

\* lines 252-253: list_remove (&inode->elem); lock_release (&inode_list_lock).
\* list_remove of an element that is in no list follows wild pointers.
inode_close_252(t) ==
  LET h == lv[t].inode IN
  /\ ~panic /\ pc[t] = "close_252"
  /\ \E o \in (IF InList(h) THEN {"valid"} ELSE {"wild", "panic"}) :
       IF o = "panic" THEN Crash
       ELSE /\ open_inodes' = ListRemove(open_inodes, h)
            /\ inode_list_lock' = NULL
            /\ pc' = [pc EXCEPT ![t] = "close_257"]
            /\ UNCHANGED <<diskv, inodes, lv, ret, calls, held, panic, iov>>

\* lines 257-270: if (inode->removed) free_map_release twice;
\* lock_release (&inode->inode_lock); free (inode)
inode_close_257(t) ==
  LET h == lv[t].inode IN
  /\ ~panic /\ pc[t] = "close_257"
  /\ \E o \in Outcomes, r \in RemovedValue(h), s \in SectorValue(h),
        d \in DataValue(h) :
       /\ CanRelease(h, t, o)
       /\ IF o = "panic" \/ (r /\ (s = NO_SECTOR \/ d.start = NO_SECTOR))
          THEN Crash
          ELSE /\ free_map' =
                    IF r
                    THEN free_map_release(free_map_release(free_map, s, 1),
                                          d.start, bytes_to_sectors(d.length))
                    ELSE free_map
               /\ files' = IF r THEN files \ {s} ELSE files
               /\ inodes' = [inodes EXCEPT ![h] = Garbage(FALSE)]
               /\ Return(t)
               /\ UNCHANGED <<disk, open_inodes, inode_list_lock, ret, calls,
                              held, panic, iov>>

\* --------------------------------------------------------- inode_remove
\* lines 281-294: inode->removed = true
inode_remove(t) ==
  \E h \in Inodes :
    /\ ~panic /\ pc[t] = "idle" /\ calls > 0
    /\ held[t][h] > 0
    /\ inodes' = [inodes EXCEPT ![h].removed = TRUE,
                                ![h].uninit = @ \ {"removed"}]
    /\ calls' = calls - 1
    /\ io' = IoNone /\ wr' = WrNone
    /\ UNCHANGED <<diskv, open_inodes, inode_list_lock, pc, lv, ret, held,
                   panic, creates, nio>>

\* ------------------------------------------------------------- dir_lock
\* lines 458-468: inode_dir_init, lock_init (&i->dir_lock).  The caller
\* passes an inode it has open.
inode_dir_init(t) ==
  \E h \in Inodes :
    /\ ~panic /\ pc[t] = "idle" /\ calls > 0
    /\ held[t][h] > 0
    /\ inodes' = [inodes EXCEPT ![h].dir_lock = NULL,
                                ![h].uninit = @ \ {"dir_lock"}]
    /\ calls' = calls - 1
    /\ io' = IoNone /\ wr' = WrNone
    /\ UNCHANGED <<diskv, open_inodes, inode_list_lock, pc, lv, ret, held,
                   panic, creates, nio>>

\* lines 434-444: inode_dir_lock, lock_acquire (&i->dir_lock).  On a lock
\* that lock_init has initialised the caller waits until the lock is free.
\* On a lock whose memory is indeterminate the call may find what looks like
\* a free lock ("valid"), come back without a usable lock ("wild": dir_lock
\* then names the thread that believes it holds the lock), or panic.
inode_dir_lock(t) ==
  \E h \in Inodes :
    /\ ~panic /\ pc[t] = "idle" /\ calls > 0
    /\ held[t][h] > 0
    /\ IF "dir_lock" \in inodes[h].uninit
       THEN \E o \in Outcomes :
              IF o = "panic" THEN Crash
              ELSE /\ inodes' =
                        [inodes EXCEPT
                           ![h].dir_lock = t,
                           ![h].uninit = IF o = "valid"
                                         THEN @ \ {"dir_lock"} ELSE @]
                   /\ calls' = calls - 1
                   /\ io' = IoNone /\ wr' = WrNone
                   /\ UNCHANGED <<diskv, open_inodes, inode_list_lock, pc, lv,
                                  ret, held, panic, creates, nio>>
       ELSE /\ inodes[h].dir_lock = NULL
            /\ inodes' = [inodes EXCEPT ![h].dir_lock = t]
            /\ calls' = calls - 1
            /\ io' = IoNone /\ wr' = WrNone
            /\ UNCHANGED <<diskv, open_inodes, inode_list_lock, pc, lv, ret,
                           held, panic, creates, nio>>

\* lines 446-456: inode_dir_unlock, lock_release (&i->dir_lock), called by
\* the thread that went through inode_dir_lock on this inode.
inode_dir_unlock(t) ==
  \E h \in Inodes :
    /\ ~panic /\ pc[t] = "idle" /\ calls > 0
    /\ held[t][h] > 0 /\ inodes[h].dir_lock = t
    /\ \E o \in (IF "dir_lock" \in inodes[h].uninit
                  THEN {"wild", "panic"} ELSE {"valid"}) :
         IF o = "panic" THEN Crash
         ELSE /\ inodes' = [inodes EXCEPT ![h].dir_lock = NULL]
              /\ calls' = calls - 1
              /\ io' = IoNone /\ wr' = WrNone
              /\ UNCHANGED <<diskv, open_inodes, inode_list_lock, pc, lv, ret,
                             held, panic, creates, nio>>

\* --------------------------------------------------------- inode_create
\* lines 109-117: the disk after disk_write of the inode to sector and of
\* zeros to the sectors start .. start + sectors - 1, in that order.
CreatedDiskNoZeros(d, sector, length, start) ==
  [d EXCEPT ![sector] =
     EncodeInode([start |-> start, length |-> length, magic |-> INODE_MAGIC])]

CreatedDisk(d, sector, length, start) ==
  LET sectors == bytes_to_sectors(length)
      inode_disk == [start |-> start, length |-> length, magic |-> INODE_MAGIC]
  IN [s \in Sectors |->
        IF start <= s /\ s < start + sectors THEN zeros
        ELSE IF s = sector THEN EncodeInode(inode_disk)
        ELSE d[s]]

\* The sectors inode_create writes, in order.
CreatedWrites(sector, length, start) ==
  <<sector>> \o [i \in 1..bytes_to_sectors(length) |-> start + i - 1]

\* lines 104-120: what inode_create returns and does to the disk once calloc
\* has succeeded; start is NO_SECTOR when free_map_allocate returns false.
CreateOutcomeWriteFirst(d, sector, length, start) ==
  IF start = NO_SECTOR
  THEN [success |-> FALSE, disk |-> CreatedDiskNoZeros(d, sector, length, 0),
        writes |-> <<sector>>]
  ELSE [success |-> TRUE, disk |-> CreatedDisk(d, sector, length, start),
        writes |-> CreatedWrites(sector, length, start)]

CreateOutcome(d, sector, length, start) ==
  IF start = NO_SECTOR
  THEN [success |-> FALSE, disk |-> d, writes |-> <<>>]
  ELSE [success |-> TRUE, disk |-> CreatedDisk(d, sector, length, start),
        writes |-> CreatedWrites(sector, length, start)]

\* lines 86-127.  calloc may fail (mem = FALSE), free_map_allocate may fail
\* (it has to when no run of free sectors is long enough).  The caller
\* passes a sector it has reserved and that holds no file.
inode_create(t) ==
  \E sector \in Locations \ files, length \in 0..MaxLength, mem \in BOOLEAN :
    LET sectors == bytes_to_sectors(length) IN
    /\ ~panic /\ pc[t] = "idle" /\ creates < MaxCreates
    /\ sector \notin free_map
    /\ creates' = creates + 1
    /\ IF ~mem
       THEN /\ io' = [IoNone EXCEPT !.op = "create", !.sector = sector,
                        !.length = length, !.start = NO_SECTOR,
                        !.nomem = TRUE]
            /\ UNCHANGED <<disk, free_map, files>>
       ELSE \E start \in {NO_SECTOR} \cup free_map_allocate(free_map, sectors) :
              LET out == CreateOutcome(disk, sector, length, start) IN
              /\ disk' = out.disk
              /\ free_map' =
                   IF start = NO_SECTOR THEN free_map
                   ELSE free_map \ {s \in Sectors :
                                      start <= s /\ s < start + sectors}
              /\ files' = IF out.success THEN files \cup {sector} ELSE files
              /\ io' = [IoNone EXCEPT !.op = "create", !.sector = sector,
                          !.length = length, !.start = start,
                          !.ok = out.success, !.writes = out.writes]
    /\ UNCHANGED <<open_inodes, inode_list_lock, inodes, pc, lv, ret, calls,
                   held, panic, nio, wr>>

\* ------------------------------------------------------- byte_to_sector
\* byte_to_sector counting the sectors of the file from 1 instead of 0.
byte_to_sector_OneBased(data, pos) ==
  IF pos < data.length
  THEN data.start + (pos \div DISK_SECTOR_SIZE) - 1
  ELSE NO_SECTOR

\* lines 50-58
byte_to_sector(data, pos) ==
  IF pos < data.length
  THEN data.start + (pos \div DISK_SECTOR_SIZE)
  ELSE NO_SECTOR

\* lines 428-432
inode_length(data) == data.length

\* lines 316-321 and 380-385: chunk_size, the lesser of size, the bytes left
\* in the inode and the bytes left in the sector.
ChunkSizeShort(data, size, offset) ==
  LET sector_ofs == offset % DISK_SECTOR_SIZE
      inode_left == inode_length(data) - offset - 1
      sector_left == DISK_SECTOR_SIZE - sector_ofs
      min_left == IF inode_left < sector_left THEN inode_left ELSE sector_left
  IN IF size < min_left THEN size ELSE min_left

ChunkSize(data, size, offset) ==
  LET sector_ofs == offset % DISK_SECTOR_SIZE
      inode_left == inode_length(data) - offset
      sector_left == DISK_SECTOR_SIZE - sector_ofs
      min_left == IF inode_left < sector_left THEN inode_left ELSE sector_left
  IN IF size < min_left THEN size ELSE min_left

\* line 407: the sector is read into the bounce buffer before the chunk is
\* staged; otherwise the bounce buffer is zero-filled.
NeedsRead(sector_ofs, chunk_size, sector_left) ==
  sector_ofs > 0 \/ chunk_size < sector_left

\* line 411: memcpy (bounce + sector_ofs, buffer + bytes_written, chunk_size)
StageChunkAtStart(bounce, buffer, bytes_written, sector_ofs, chunk_size) ==
  [i \in 1..DISK_SECTOR_SIZE |->
     IF i <= chunk_size THEN buffer[bytes_written + i] ELSE bounce[i]]

StageChunk(bounce, buffer, bytes_written, sector_ofs, chunk_size) ==
  [i \in 1..DISK_SECTOR_SIZE |->
     IF sector_ofs < i /\ i <= sector_ofs + chunk_size
     THEN buffer[bytes_written + i - sector_ofs]
     ELSE bounce[i]]

\* line 392: disk_write (filesys_disk, sector_idx, buffer + bytes_written),
\* the sector image the disk takes from the caller's buffer.
WholeSectorFromStart(buffer, bytes_written) == SubSeq(buffer, 1, DISK_SECTOR_SIZE)

WholeSector(buffer, bytes_written) ==
  SubSeq(buffer, bytes_written + 1, bytes_written + DISK_SECTOR_SIZE)

\* line 341: memcpy (buffer + bytes_read, bounce + sector_ofs, chunk_size),
\* the bytes that reach the caller's buffer.
CopyOutFromStart(bounce, sector_ofs, chunk_size) == SubSeq(bounce, 1, chunk_size)

CopyOut(bounce, sector_ofs, chunk_size) ==
  SubSeq(bounce, sector_ofs + 1, sector_ofs + chunk_size)

\* The (offset, size) pairs a caller passes for a file of the given length:
\* every range inside the file, every range that ends one byte past it, a
\* request for more than any file holds, and a request for a whole sector
\* that starts a sector past the end.
Requests(length) ==
  {r \in (0..(length + 1)) \X (0..(length + 1)) :
     r[1] + r[2] <= length + 1 \/ r[2] <= 1}
  \cup {<<0, MaxLength + 1>>,
        <<length + DISK_SECTOR_SIZE, DISK_SECTOR_SIZE>>}

\* The bytes the k-th inode_write_at call is asked to write.
Payload(k, size) == [i \in 1..size |-> 20 * k + i]

\* -------------------------------------------------------- inode_read_at
\* lines 309-348: the loop.  st is [ret, buf, reads, nomem]: bytes_read, the
\* bytes stored in the caller's buffer so far, the sectors read from disk,
\* and whether malloc of the bounce buffer failed (mem = FALSE).
RECURSIVE ReadLoop(_, _, _, _, _, _)
ReadLoop(d, data, size, offset, mem, st) ==
  IF size <= 0 THEN st
  ELSE
    LET sector_idx == byte_to_sector(data, offset)
        sector_ofs == offset % DISK_SECTOR_SIZE
        chunk_size == ChunkSize(data, size, offset)
    IN
    IF chunk_size <= 0 THEN st
    ELSE IF sector_ofs = 0 /\ chunk_size = DISK_SECTOR_SIZE
    THEN ReadLoop(d, data, size - chunk_size, offset + chunk_size, mem,
                  [st EXCEPT !.ret = @ + chunk_size,
                             !.buf = @ \o d[sector_idx],
                             !.reads = Append(@, sector_idx)])
    ELSE IF ~mem THEN [st EXCEPT !.nomem = TRUE]
    ELSE ReadLoop(d, data, size - chunk_size, offset + chunk_size, mem,
                  [st EXCEPT !.ret = @ + chunk_size,
                             !.buf = @ \o CopyOut(d[sector_idx], sector_ofs,
                                                  chunk_size),
                             !.reads = Append(@, sector_idx)])

\* lines 299-355.  The caller passes an inode it has open.
inode_read_at(t) ==
  \E h \in Inodes, mem \in BOOLEAN :
    /\ ~panic /\ pc[t] = "idle" /\ nio.rd < MaxReads
    /\ held[t][h] > 0 /\ "data" \notin inodes[h].uninit
    /\ \E r \in Requests(inodes[h].data.length) :
         LET res == ReadLoop(disk, inodes[h].data, r[2], r[1], mem,
                             [ret |-> 0, buf |-> <<>>, reads |-> <<>>,
                              nomem |-> FALSE])
         IN io' = [IoNone EXCEPT !.op = "read", !.inode = h,
                     !.sector = inodes[h].sector, !.offset = r[1],
                     !.size = r[2], !.length = inodes[h].data.length,
                     !.start = inodes[h].data.start, !.ret = res.ret,
                     !.buf = res.buf, !.reads = res.reads,
                     !.nomem = res.nomem]
    /\ nio' = [nio EXCEPT !.rd = @ + 1]
    /\ UNCHANGED <<diskv, open_inodes, inode_list_lock, inodes, pc, lv, ret,
                   calls, held, panic, creates, wr>>

\* ------------------------------------------------------- inode_write_at
\* lines 373-419: the loop.  st is [disk, ret, reads, writes, zeroed, nomem]:
\* the disk, bytes_written, the sectors read and written, the number of
\* chunks staged in a zero-filled bounce buffer, and whether malloc failed.
RECURSIVE WriteLoop(_, _, _, _, _, _)
WriteLoop(data, buffer, size, offset, mem, st) ==
  IF size <= 0 THEN st
  ELSE
    LET sector_idx == byte_to_sector(data, offset)
        sector_ofs == offset % DISK_SECTOR_SIZE
        sector_left == DISK_SECTOR_SIZE - sector_ofs
        chunk_size == ChunkSize(data, size, offset)
    IN
    IF chunk_size <= 0 THEN st
    ELSE IF sector_ofs = 0 /\ chunk_size = DISK_SECTOR_SIZE
    THEN WriteLoop(data, buffer, size - chunk_size, offset + chunk_size, mem,
                   [st EXCEPT !.ret = @ + chunk_size,
                              !.disk[sector_idx] = WholeSector(buffer, st.ret),
                              !.writes = Append(@, sector_idx)])
    ELSE IF ~mem THEN [st EXCEPT !.nomem = TRUE]
    ELSE IF NeedsRead(sector_ofs, chunk_size, sector_left)
    THEN WriteLoop(data, buffer, size - chunk_size, offset + chunk_size, mem,
                   [st EXCEPT !.ret = @ + chunk_size,
                              !.disk[sector_idx] =
                                 StageChunk(st.disk[sector_idx], buffer, st.ret,
                                            sector_ofs, chunk_size),
                              !.reads = Append(@, sector_idx),
                              !.writes = Append(@, sector_idx)])
    ELSE WriteLoop(data, buffer, size - chunk_size, offset + chunk_size, mem,
                   [st EXCEPT !.ret = @ + chunk_size,
                              !.disk[sector_idx] =
                                 StageChunk(zeros, buffer, st.ret, sector_ofs,
                                            chunk_size),
                              !.zeroed = @ + 1,
                              !.writes = Append(@, sector_idx)])

\* lines 362-425.  The caller passes an inode it has open.
inode_write_at(t) ==
  \E h \in Inodes, mem \in BOOLEAN :
    /\ ~panic /\ pc[t] = "idle" /\ nio.wr < MaxWrites
    /\ held[t][h] > 0 /\ "data" \notin inodes[h].uninit
    /\ \E r \in Requests(inodes[h].data.length) :
         LET buffer == Payload(nio.wr + 1, r[2])
             res == WriteLoop(inodes[h].data, buffer, r[2], r[1], mem,
                              [disk |-> disk, ret |-> 0, reads |-> <<>>,
                               writes |-> <<>>, zeroed |-> 0, nomem |-> FALSE])
         IN /\ disk' = res.disk
            /\ io' = [IoNone EXCEPT !.op = "write", !.inode = h,
                        !.sector = inodes[h].sector, !.offset = r[1],
                        !.size = r[2], !.length = inodes[h].data.length,
                        !.start = inodes[h].data.start, !.ret = res.ret,
                        !.buf = buffer, !.reads = res.reads,
                        !.writes = res.writes, !.zeroed = res.zeroed,
                        !.nomem = res.nomem]
            /\ wr' = [valid |-> TRUE, inode |-> h, offset |-> r[1],
                      buf |-> buffer, ret |-> res.ret, nomem |-> res.nomem]
    /\ nio' = [nio EXCEPT !.wr = @ + 1]
    /\ UNCHANGED <<free_map, files, open_inodes, inode_list_lock, inodes, pc,
                   lv, ret, calls, held, panic, creates>>

\* ------------------------------------------------------- specifications
\* inode_init (lines 66-79): the list is empty and its lock is free.  No
\* inode is allocated and no thread is in a call.
InitCommon ==
  /\ open_inodes = <<>>
  /\ inode_list_lock = NULL
  /\ inodes = [h \in Inodes |-> Garbage(FALSE)]
  /\ pc = [t \in Threads |-> "idle"]
  /\ lv = [t \in Threads |-> LvInit]
  /\ ret = [t \in Threads |-> NULL]
  /\ held = [t \in Threads |-> [h \in Inodes |-> 0]]
  /\ panic = FALSE
  /\ nio = [rd |-> 0, wr |-> 0]
  /\ wr = WrNone
  /\ io = IoNone

\* A disk on which nothing has been created.
InitIO ==
  /\ InitCommon
  /\ disk = [s \in Sectors |-> Stale(s)]
  /\ free_map = Sectors \ Locations
  /\ files = {}
  /\ creates = 0
  /\ calls = MaxIOCalls

\* A disk on which inode_create has made one file at every location, the
\* file at location l being l + 1 bytes long.
RECURSIVE Formatted(_)
Formatted(n) ==
  IF n = 0
  THEN [disk |-> [s \in Sectors |-> Stale(s)], next |-> NLocations]
  ELSE LET f == Formatted(n - 1) IN
       [disk |-> CreatedDisk(f.disk, n - 1, n, f.next),
        next |-> f.next + bytes_to_sectors(n)]

Init ==
  /\ InitCommon
  /\ disk = Formatted(NLocations).disk
  /\ free_map = {s \in Sectors : s >= Formatted(NLocations).next}
  /\ files = Locations
  /\ creates = MaxCreates
  /\ calls = MaxCalls

Lifecycle(t) ==
  \/ inode_open(t) \/ inode_open_141(t) \/ inode_open_143(t)
  \/ inode_open_148(t) \/ inode_open_153(t) \/ inode_open_162(t)
  \/ inode_open_176(t) \/ inode_open_177(t) \/ inode_open_178(t)
  \/ inode_open_180(t) \/ inode_open_181(t)
  \/ inode_reopen(t) \/ inode_reopen_199(t) \/ inode_reopen_200(t)
  \/ inode_close(t) \/ inode_close_246(t) \/ inode_close_248(t)
  \/ inode_close_251(t) \/ inode_close_252(t) \/ inode_close_257(t)
  \/ inode_remove(t)

\* Threads running the lifecycle functions concurrently on existing files.
Next == \E t \in Threads : Lifecycle(t)

Spec == Init /\ [][Next]_vars

\* One thread creating, opening, reading, writing, removing and closing.
NextIO ==
  \E t \in {1} :
    \/ Lifecycle(t)
    \/ inode_create(t) \/ inode_read_at(t) \/ inode_write_at(t)

SpecIO == InitIO /\ [][NextIO]_vars

\* Threads that also use the directory lock of the inodes they have open.
NextDir ==
  \E t \in Threads :
    \/ Lifecycle(t)
    \/ inode_dir_init(t) \/ inode_dir_lock(t) \/ inode_dir_unlock(t)

SpecDir == Init /\ [][NextDir]_vars

\* ================================================================ claims
InCall(t) == pc[t] \notin {"idle", "halted"}

Registered == {open_inodes[i] : i \in 1..Len(open_inodes)}

\* The sectors of the file an inode describes: its inode sector and its
\* bytes_to_sectors (length) data sectors.
FileSectors(ino) ==
  {ino.sector} \cup
  {s \in Sectors : ino.data.start <= s
                   /\ s < ino.data.start + bytes_to_sectors(ino.data.length)}

\* C1: when every thread has made one call, inode_open of the same sector
\* starting from the empty list, and all calls have returned an inode, they
\* have returned the same inode and its open_cnt is the number of threads.
C1_ConcurrentOpenSameHandle ==
  (/\ calls = MaxCalls - NThreads
   /\ \A t \in Threads : /\ pc[t] = "idle" /\ ret[t] # NULL
                         /\ HeldTotal(t) = 1
                         /\ lv[t].sector = lv[1].sector)
  => /\ \A t \in Threads : ret[t] = ret[1]
     /\ "open_cnt" \notin inodes[ret[1]].uninit
     /\ inodes[ret[1]].open_cnt = NThreads

\* C2: no two inodes in the list of open inodes have the same sector.
C2_OneHandlePerSector ==
  \A i, j \in 1..Len(open_inodes) :
    (/\ i # j
     /\ "sector" \notin inodes[open_inodes[i]].uninit
     /\ "sector" \notin inodes[open_inodes[j]].uninit)
    => inodes[open_inodes[i]].sector # inodes[open_inodes[j]].sector

\* C3: an inode is not freed while a thread holds a reference that
\* inode_open or inode_reopen returned and no inode_close has given up, and
\* no thread is inside inode_reopen or inode_close on a freed inode.
C3_NoFreeWhileReferenced ==
  /\ \A t \in Threads, h \in Inodes : held[t][h] > 0 => inodes[h].alloc
  /\ \A t \in Threads :
       pc[t] \in {"reopen_199", "reopen_200", "close_246", "close_248",
                  "close_251", "close_252", "close_257"}
       => inodes[lv[t].inode].alloc

\* C4: as long as a reference to an inode is not yet closed the inode is in
\* the list of open inodes (only the close of the last reference removes
\* it), and an inode_close that goes on to list_remove finds the inode in
\* the list (it is removed at most once).
C4_OnlyLastCloseRemoves ==
  /\ \A t \in Threads, h \in Inodes : held[t][h] > 0 => h \in Registered
  /\ \A t \in Threads :
       pc[t] \in {"close_251", "close_252"} => lv[t].inode \in Registered

\* C5: inode_remove changes neither the list of open inodes nor the free
\* map; the free map changes only in the inode_close that brought open_cnt
\* to zero on an inode that inode_remove has marked, and then gains exactly
\* the inode sector and the data sectors of that inode, none of which was
\* free before; an inode_close to zero of an unmarked inode leaves the free
\* map alone.
C5_Release(t) ==
  LET h == lv[t].inode IN
  /\ pc[t] = "close_257"
  /\ inodes[h].uninit \cap {"removed", "sector", "data", "open_cnt"} = {}
  /\ inodes[h].removed /\ inodes[h].open_cnt = 0
  /\ FileSectors(inodes[h]) \cap free_map = {}
  /\ free_map' = free_map \cup FileSectors(inodes[h])

C5_LazyDeletion ==
  [][/\ (calls' # calls /\ pc' = pc)
        => (open_inodes' = open_inodes /\ free_map' = free_map)
     /\ free_map' # free_map => \E t \in Threads : C5_Release(t)
     /\ \A t \in Threads :
          (/\ pc[t] = "close_257" /\ pc'[t] = "idle"
           /\ "removed" \notin inodes[lv[t].inode].uninit
           /\ ~inodes[lv[t].inode].removed)
          => free_map' = free_map]_vars

\* An inode_read_at has just read back the range the last inode_write_at
\* was asked to write, and that range lies inside the file.
ReadBack ==
  /\ io.op = "read" /\ wr.valid /\ io.inode = wr.inode
  /\ io.offset = wr.offset /\ io.size = Len(wr.buf)
  /\ io.offset + io.size <= io.length

\* C6 as claimed: inode_write_at of b at o, o + len(b) <= length, returns
\* len(b), and the following inode_read_at of the range returns len(b) and b.
C6_RoundTripAlways ==
  ReadBack => /\ wr.ret = Len(wr.buf)
              /\ io.ret = io.size
              /\ io.buf = wr.buf

\* C6 as amended: the same, when malloc of the bounce buffer fails in
\* neither call.
C6_RoundTrip ==
  (ReadBack /\ ~wr.nomem /\ ~io.nomem)
  => /\ wr.ret = Len(wr.buf)
     /\ io.ret = io.size
     /\ io.buf = wr.buf

\* A read-back of a range that starts inside a sector and crosses two
\* sector boundaries.
C6_Witness ==
  /\ ReadBack /\ ~wr.nomem /\ ~io.nomem
  /\ io.offset % DISK_SECTOR_SIZE # 0
  /\ Len(io.reads) >= 3
  /\ io.buf = wr.buf

\* C7: when malloc of the bounce buffer does not fail, inode_read_at and
\* inode_write_at return min(size, max(0, length - offset)), and the length
\* in the inode and in its sector on disk is what it was before the call.
C7_ClippedToLength ==
  (io.op \in {"read", "write"} /\ ~io.nomem)
  => /\ io.ret = Min(io.size, Max(0, io.length - io.offset))
     /\ "data" \notin inodes[io.inode].uninit
     /\ inodes[io.inode].data.length = io.length
     /\ DecodeInode(disk[io.sector]).length = io.length

\* A write that reaches past the end of the file and is cut short.
C7_Witness ==
  /\ io.op = "write" /\ ~io.nomem
  /\ io.offset + io.size > io.length
  /\ 0 < io.ret /\ io.ret < io.size
  /\ Len(io.writes) >= 2

\* C8: a successful inode_create (sector, L) leaves an inode with length L
\* and the allocated start at sector, takes exactly bytes_to_sectors (L)
\* sectors from the free map and leaves them zero-filled; as long as nothing
\* has been written, every byte inode_read_at returns is zero.
C8_CreateStep ==
  (creates' # creates /\ io'.ok)
  => /\ DecodeInode(disk'[io'.sector]) =
          [start |-> io'.start, length |-> io'.length, magic |-> INODE_MAGIC]
     /\ free_map' \subseteq free_map
     /\ Cardinality(free_map \ free_map') = bytes_to_sectors(io'.length)
     /\ \A s \in free_map \ free_map' :
          /\ io'.start <= s /\ s < io'.start + bytes_to_sectors(io'.length)
          /\ disk'[s] = zeros

C8_ReadStep ==
  (nio'.rd # nio.rd /\ nio.wr = 0)
  => /\ Len(io'.buf) = io'.ret
     /\ \A i \in 1..Len(io'.buf) : io'.buf[i] = 0

C8_CreateZeroFilled == [][C8_CreateStep /\ C8_ReadStep]_vars

\* A read across a sector boundary of a file nothing has been written to.
C8_Witness ==
  /\ io.op = "read" /\ nio.wr = 0
  /\ io.offset > 0 /\ io.ret > DISK_SECTOR_SIZE

\* C9: when free_map_allocate refuses, inode_create returns false, writes no
\* sector, and changes neither the free map nor the list of open inodes.
C9_FailedCreateWritesNothing ==
  [][(creates' # creates /\ ~io'.nomem /\ io'.start = NO_SECTOR)
     => /\ ~io'.ok
        /\ io'.writes = <<>>
        /\ disk' = disk
        /\ free_map' = free_map
        /\ open_inodes' = open_inodes]_vars

\* An inode_create of a file with data that the allocator refused.
C9_Witness ==
  /\ io.op = "create" /\ ~io.nomem /\ io.start = NO_SECTOR
  /\ ~io.ok /\ io.length > 0

\* The bytes of the file with the given inode_disk that a write of n bytes
\* at offset covers, as (sector, cell) pairs.
Covered(data, offset, n) ==
  {<<data.start + (p \div DISK_SECTOR_SIZE), (p % DISK_SECTOR_SIZE) + 1>> :
     p \in offset..(offset + n - 1)}

\* C10: inode_write_at changes no byte of the disk outside the bytes
\* [offset, offset + bytes_written) of the file; a read of the whole file
\* after the first write returns the written bytes in their place and zeros
\* everywhere else.
C10_WriteStep ==
  nio'.wr # nio.wr
  => \A s \in Sectors, i \in 1..DISK_SECTOR_SIZE :
       disk'[s][i] # disk[s][i]
       => <<s, i>> \in Covered(inodes[io'.inode].data, io'.offset, io'.ret)

C10_ReadStep ==
  (/\ nio'.rd # nio.rd /\ nio.wr = 1 /\ wr.valid /\ io'.inode = wr.inode
   /\ io'.offset = 0 /\ io'.size = io'.length /\ ~io'.nomem)
  => /\ io'.ret = io'.length
     /\ \A i \in 1..io'.length :
          io'.buf[i] = IF wr.offset < i /\ i <= wr.offset + wr.ret
                       THEN wr.buf[i - wr.offset]
                       ELSE 0

C10_WriteFrame == [][C10_WriteStep /\ C10_ReadStep]_vars

\* The file is one byte short of two sectors; the first sector and one byte
\* of the second were written, and the whole file was read back.
C10_Witness ==
  /\ io.op = "read" /\ wr.valid /\ io.inode = wr.inode /\ ~io.nomem
  /\ io.length = 2 * DISK_SECTOR_SIZE - 1
  /\ wr.offset = 0 /\ wr.ret = DISK_SECTOR_SIZE + 1
  /\ io.offset = 0 /\ io.ret = io.length
  /\ SubSeq(io.buf, 1, wr.ret) = wr.buf
  /\ \A i \in (wr.ret + 1)..io.length : io.buf[i] = 0

\* What the list of open inodes says about an inode: everything but the
\* state of its locks.
Entry(ino) ==
  [alloc |-> ino.alloc, sector |-> ino.sector, open_cnt |-> ino.open_cnt,
   removed |-> ino.removed, data |-> ino.data,
   uninit |-> ino.uninit \ {"inode_lock", "dir_lock"}]

\* C11: an inode_open in which malloc returns NULL returns NULL with
\* inode_list_lock released, and neither that step nor the scan of the list
\* before it changes the list, or the sector, open_cnt, removed or data of
\* any inode.
C11_FailStep(t) ==
  (pc[t] = "open_162" /\ pc'[t] = "idle")
  => /\ ret'[t] = NULL
     /\ inode_list_lock' = NULL
     /\ open_inodes' = open_inodes
     /\ inodes' = inodes
     /\ held' = held
     /\ diskv' = diskv

C11_ScanStep(t) ==
  (/\ pc[t] \in {"open_141", "open_143", "open_148"}
   /\ pc'[t] \in {"open_143", "open_148", "open_162"} /\ pc'[t] # pc[t])
  => /\ open_inodes' = open_inodes
     /\ \A h \in Inodes : Entry(inodes'[h]) = Entry(inodes[h])

C11_OpenNoMemory ==
  [][\A t \in Threads : C11_FailStep(t) /\ C11_ScanStep(t)]_vars

\* Thread 2 has called inode_open (1) and got NULL back while thread 1 has
\* sector 0 open; the list holds that inode alone.
C11_Witness ==
  /\ calls = MaxCalls - 2
  /\ pc[2] = "idle" /\ ret[2] = NULL /\ lv[2].sector = 1 /\ HeldTotal(2) = 0
  /\ pc[1] = "idle" /\ ret[1] # NULL /\ held[1][ret[1]] = 1
  /\ open_inodes = <<ret[1]>>
  /\ inodes[ret[1]].uninit \subseteq {"dir_lock"}
  /\ inodes[ret[1]].sector = 0 /\ inodes[ret[1]].open_cnt = 1
  /\ inode_list_lock = NULL

\* C12: once inode_remove has set removed on an inode it stays set until the
\* inode is freed, and an inode_remove of an inode that is already marked
\* changes no inode, not the list of open inodes and not the free map.
C12_StaysRemoved(h) ==
  (/\ inodes[h].alloc /\ "removed" \notin inodes[h].uninit
   /\ inodes[h].removed /\ inodes'[h].alloc)
  => ("removed" \notin inodes'[h].uninit /\ inodes'[h].removed)

C12_SecondRemove ==
  (/\ calls' # calls /\ pc' = pc
   /\ \A h \in Inodes :
        inodes'[h] # inodes[h]
        => ("removed" \notin inodes[h].uninit /\ inodes[h].removed))
  => (inodes' = inodes /\ open_inodes' = open_inodes /\ diskv' = diskv)

C12_RemoveIdempotent ==
  [][C12_SecondRemove /\ \A h \in Inodes : C12_StaysRemoved(h)]_vars

\* C13: inode_create of a file of length 0 takes no sector from the free
\* map and writes the inode sector alone; inode_length of an inode opened on
\* such a file is 0; inode_read_at and inode_write_at on it return 0 and
\* pass no sector to the disk, so that the start in the inode is never used.
C13_CreateStep ==
  (creates' # creates /\ io'.ok /\ io'.length = 0)
  => /\ io'.writes = <<io'.sector>>
     /\ free_map' = free_map
     /\ \A s \in Sectors \ {io'.sector} : disk'[s] = disk[s]
     /\ DecodeInode(disk'[io'.sector]).length = 0

C13_IoStep ==
  (/\ nio' # nio
   /\ DecodeInode(disk[inodes[io'.inode].sector]).length = 0)
  => /\ inode_length(inodes[io'.inode].data) = 0
     /\ io'.ret = 0
     /\ io'.reads = <<>> /\ io'.writes = <<>>
     /\ io'.buf = (IF io'.op = "read" THEN <<>> ELSE io'.buf)
     /\ disk' = disk

C13_EmptyFile == [][C13_CreateStep /\ C13_IoStep]_vars

\* A read of more than a sector from a file of length 0 that inode_create
\* has made and inode_open has opened.
C13_Witness ==
  /\ io.op = "read" /\ io.length = 0 /\ io.size > DISK_SECTOR_SIZE
  /\ ~io.nomem /\ io.ret = 0
  /\ creates = 1 /\ held[1][io.inode] > 0
  /\ DecodeInode(disk[io.sector]) =
       [start |-> io.start, length |-> 0, magic |-> INODE_MAGIC]

\* C14: when an inode sector has been opened twice, the bytes that
\* inode_write_at has written through one of the two inodes returned are
\* what a following inode_read_at of the same range through the other
\* returns.
C14_SharedContent ==
  (/\ io.op = "read" /\ wr.valid /\ ~io.nomem
   /\ inodes[io.inode].sector = inodes[wr.inode].sector
   /\ held[1][io.inode] + (IF wr.inode = io.inode THEN 0
                            ELSE held[1][wr.inode]) >= 2
   /\ io.offset = wr.offset /\ io.size = Len(wr.buf))
  => /\ io.ret >= wr.ret
     /\ SubSeq(io.buf, 1, wr.ret) = SubSeq(wr.buf, 1, wr.ret)

\* Two opens of one inode sector, a write of more than two sectors through
\* the inode returned, and a read of the same range.
C14_Witness ==
  /\ io.op = "read" /\ wr.valid /\ ~io.nomem /\ ~wr.nomem
  /\ inodes[io.inode].sector = inodes[wr.inode].sector
  /\ held[1][io.inode] = 2 /\ inodes[io.inode].open_cnt = 2
  /\ io.offset = wr.offset /\ io.size = Len(wr.buf)
  /\ wr.ret > 2 * DISK_SECTOR_SIZE
  /\ io.buf = wr.buf

\* Thread t is about to lock_acquire the inode_lock of inode h while it
\* holds inode_list_lock: in the scan of inode_open (line 147) or in the
\* inode_reopen that inode_open calls (line 199).
WaitsForInode(t, h) ==
  /\ inode_list_lock = t
  /\ \/ /\ pc[t] = "open_143" /\ lv[t].e <= Len(open_inodes)
        /\ open_inodes[lv[t].e] = h
     \/ /\ pc[t] = "reopen_199" /\ lv[t].from = "open" /\ lv[t].inode = h

\* C15: no state is reached in which one thread holds inode_list_lock and
\* waits for the inode_lock of an inode while another thread holds that
\* inode_lock and waits for inode_list_lock.
C15_NoLockCycle ==
  \A t1, t2 \in Threads, h \in Inodes :
    ~(/\ t1 # t2
      /\ WaitsForInode(t1, h)
      /\ "inode_lock" \notin inodes[h].uninit
      /\ inodes[h].inode_lock = t2
      /\ pc[t2] = "close_251")

\* The references to inode h that inode_open and inode_reopen have returned
\* and that have not been passed to inode_close.
References(h) ==
  LET RECURSIVE Sum(_)
      Sum(t) == IF t = 0 THEN 0 ELSE held[t][h] + Sum(t - 1)
  IN Sum(NThreads)

\* C16: whenever no call is in progress, every inode in the list of open
\* inodes has an open_cnt of at least 1, equal to the number of times
\* inode_open and inode_reopen have returned it less the number of
\* inode_close calls made on it.
C16_OpenCntCountsReferences ==
  (\A t \in Threads : pc[t] = "idle")
  => \A h \in Registered :
       /\ "open_cnt" \notin inodes[h].uninit
       /\ inodes[h].open_cnt >= 1
       /\ inodes[h].open_cnt = References(h)

\* The fields inode_open sets between line 176 and line 181.
OpenFields == {"sector", "open_cnt", "removed", "data", "inode_lock"}

\* C17: a thread that has reached an inode in the scan of inode_open (it
\* has passed lock_acquire on its inode_lock and compares its sector, or is
\* in the inode_reopen the scan calls) works on an inode whose sector,
\* open_cnt, removed, data and inode_lock the creating inode_open has set.
C17_PublishedInitialized ==
  \A t \in Threads :
    (\/ pc[t] = "open_148"
     \/ pc[t] \in {"reopen_199", "reopen_200"} /\ lv[t].from = "open")
    => inodes[lv[t].inode].uninit \cap OpenFields = {}

\* C18: when the last chunk of an inode_write_at starts on a sector boundary
\* and ends at the end of the file inside that sector, that chunk is staged
\* in a zero-filled bounce buffer and its sector is not read.
C18_ZeroFillAtTail ==
  (/\ io.op = "write" /\ ~io.nomem /\ io.ret > 0
   /\ io.length % DISK_SECTOR_SIZE # 0
   /\ io.offset + io.ret = io.length
   /\ io.offset <= (io.length \div DISK_SECTOR_SIZE) * DISK_SECTOR_SIZE)
  => /\ io.zeroed = 1
     /\ \A i \in 1..Len(io.reads) :
          io.reads[i] # io.start + (io.length \div DISK_SECTOR_SIZE)

\* C19: every inode that inode_open has returned has an initialised
\* dir_lock, so that inode_dir_lock never does lock_acquire on a dir_lock
\* that no lock_init has initialised; and no step of inode_open changes the
\* dir_lock of an inode that has been returned before.
C19_AcquireStep(h) ==
  (/\ inodes[h].alloc /\ inodes'[h].alloc
   /\ inodes'[h].dir_lock # NULL /\ inodes'[h].dir_lock # inodes[h].dir_lock)
  => "dir_lock" \notin inodes[h].uninit

C19_OpenStep(h) ==
  (/\ \E t \in Threads : held[t][h] > 0
   /\ \E t \in Threads : /\ pc'[t] # pc[t]
                          /\ \/ pc[t] \in {"open_141", "open_143", "open_148",
                                           "open_153", "open_162"}
                             \/ pc[t] \in {"reopen_199", "reopen_200"}
                                /\ lv[t].from = "open"
   /\ inodes'[h].alloc)
  => /\ inodes'[h].dir_lock = inodes[h].dir_lock
     /\ ("dir_lock" \in inodes'[h].uninit) = ("dir_lock" \in inodes[h].uninit)

C19_DirLockInitialized ==
  [][\A h \in Inodes : C19_AcquireStep(h) /\ C19_OpenStep(h)]_vars

\* The sectors that hold the data of the file an I/O call worked on.
DataSectors(call) ==
  {s \in Sectors : call.start <= s
                   /\ s < call.start + bytes_to_sectors(call.length)}

\* C20: every sector inode_read_at and inode_write_at read or write is one
\* of the data sectors start .. start + bytes_to_sectors (length) - 1 of the
\* inode, never the -1 of byte_to_sector; inode_read_at writes no sector and
\* changes no inode.
C20_IoStep ==
  nio' # nio
  => /\ \A i \in 1..Len(io'.reads) : io'.reads[i] \in DataSectors(io')
     /\ \A i \in 1..Len(io'.writes) : io'.writes[i] \in DataSectors(io')
     /\ io'.op = "read"
        => (io'.writes = <<>> /\ disk' = disk /\ inodes' = inodes)

C20_SectorsInRange == [][C20_IoStep]_vars

\* A read that was asked for more than the file holds and stopped at its
\* end after reading at least two sectors.
C20_Witness ==
  /\ io.op = "read" /\ ~io.nomem
  /\ io.offset + io.size > io.length
  /\ io.ret = io.length - io.offset
  /\ Len(io.reads) >= 2
  /\ \A i \in 1..Len(io.reads) : io.reads[i] \in DataSectors(io)

====
